---- MODULE Spec2Model ----
(***************************************************************************)
(* Progression & reward engine and session-token revocation of the         *)
(* gamification-finances API.                                              *)
(*                                                                         *)
(* One registered user (AuthService.register creates the wallet and the    *)
(* progress record, and nothing deletes them) is served by a fixed set of  *)
(* request handlers.  Every handler is an async function: its storage      *)
(* reads and writes are the awaits at which other handlers interleave, so  *)
(* each repository call is two steps, a find (with the in-memory           *)
(* mutation that follows it synchronously) and a save.                     *)
(***************************************************************************)
EXTENDS Integers, Sequences, FiniteSets, TLC

\* ------------------------------------------------------------------ bounds
NumProcs == 2        \* request handlers that may run concurrently
MaxCalls == 3        \* calls (grant calls, token requests) started in one run
MaxLevel == 3        \* direct addExperience calls start below this level
MaxXp == 250         \* largest amount of a direct addExperience call
MaxCoinAmt == 12     \* largest amount of a direct addCoins / spendCoins call
MaxCoins == 30       \* direct addCoins calls keep totalEarned within this
MaxTime == 3         \* the clock runs from 0 to MaxTime (seconds)

Procs == 1..NumProcs

\* ------------------------------------------------------------ the catalog
\* Badge documents (rarity and isActive are the fields the grant reads).
BadgeCatalog ==
  [ bCommon    |-> [rarity |-> "common",    isActive |-> TRUE],
    bRare      |-> [rarity |-> "rare",      isActive |-> TRUE],
    bEpic      |-> [rarity |-> "epic",      isActive |-> TRUE],
    bLegendary |-> [rarity |-> "legendary", isActive |-> TRUE],
    bUnique    |-> [rarity |-> "unique",    isActive |-> TRUE],
    bOff       |-> [rarity |-> "rare",      isActive |-> FALSE] ]

\* Achievement documents: reward.experience and reward.coins have min 0 and
\* default 0.
AchievementCatalog ==
  [ aGold |-> [experience |-> 50, coins |-> 10, isActive |-> TRUE],
    aZero |-> [experience |-> 0,  coins |-> 0,  isActive |-> TRUE],
    aOff  |-> [experience |-> 50, coins |-> 10, isActive |-> FALSE] ]

\* Ids a request may carry: the catalog's and one id of no document.
BadgeIds == DOMAIN BadgeCatalog \cup {"bNone"}
AchievementIds == DOMAIN AchievementCatalog \cup {"aNone"}
RewardIds == BadgeIds \cup AchievementIds

\* ------------------------------------------------------- ExperienceLedger
\* (d, e) for which the double (e / d) * 100 falls just below k + 0.5 although
\* e * 100 / d is exactly k + 0.5, so that Math.round yields k and not k + 1.
RoundsDown ==
  { <<200, 29>>, <<200, 57>>, <<200, 113>>, <<200, 115>>, <<200, 201>>,
    <<200, 203>>, <<200, 205>>, <<200, 207>>, <<200, 251>>, <<200, 253>>,
    <<200, 255>>, <<200, 427>>, <<200, 431>>, <<200, 435>>, <<200, 439>>,
    <<200, 477>>, <<200, 481>>, <<200, 485>>, <<200, 489>>, <<200, 803>>,
    <<200, 829>>, <<200, 837>>, <<200, 845>>, <<200, 853>>, <<200, 879>>,
    <<200, 887>>, <<200, 895>>, <<200, 903>>, <<200, 929>>, <<200, 937>>,
    <<200, 945>>, <<200, 953>>, <<200, 979>>, <<200, 987>>, <<200, 995>>,
    <<200, 1003>>, <<400, 58>>, <<400, 114>>, <<400, 226>>, <<400, 230>>,
    <<400, 402>>, <<400, 406>>, <<400, 410>>, <<400, 414>>, <<400, 502>>,
    <<400, 506>>, <<400, 510>>, <<400, 854>>, <<400, 862>>, <<400, 870>>,
    <<400, 878>>, <<400, 954>>, <<400, 962>>, <<400, 970>>, <<400, 978>>,
    <<600, 87>>, <<600, 171>>, <<600, 339>>, <<600, 345>>, <<600, 603>>,
    <<600, 609>>, <<600, 615>>, <<600, 621>>, <<600, 753>>, <<600, 759>>,
    <<600, 765>>, <<600, 1281>>, <<600, 1293>>, <<600, 1305>>, <<600, 1317>>,
    <<800, 116>>, <<800, 228>>, <<800, 452>>, <<800, 460>>, <<800, 804>>,
    <<800, 812>>, <<800, 820>>, <<800, 828>>, <<800, 1004>>, <<800, 1012>>,
    <<800, 1020>> }

\* Math.round((e / d) * 100) for e >= 0, d > 0: half rounds up, computed in
\* doubles.
LevelProgress(e, d) ==
  IF <<d, e>> \in RoundsDown THEN (e * 100) \div d
  ELSE (e * 200 + d) \div (2 * d)

\* userProgressSchema.methods.addExperience for amount > 0: the document
\* after the call.  One threshold is tested, once.
AddExperienceDoc(doc, amount) ==
  LET summed == doc.experience + amount
      experienceForNextLevel == doc.level * 100
  IN IF summed >= experienceForNextLevel
     THEN [doc EXCEPT !.level = doc.level + 1,
                      !.experience = summed - experienceForNextLevel,
                      !.experienceToNextLevel = (doc.level + 1) * 100,
                      !.levelProgress =
                          LevelProgress(summed - experienceForNextLevel,
                                        (doc.level + 1) * 100)]
     ELSE [doc EXCEPT !.experience = summed,
                      !.experienceToNextLevel = experienceForNextLevel,
                      !.levelProgress =
                          LevelProgress(summed, experienceForNextLevel)]

\* The schema's validators, run by save(): level min 1, experience min 0,
\* levelProgress min 0 max 100.
ValidProgress(doc) ==
  /\ doc.level >= 1
  /\ doc.experience >= 0
  /\ doc.levelProgress >= 0
  /\ doc.levelProgress <= 100

\* ------------------------------------------------------------ WalletLedger
\* canAfford with a strict comparison.
CanAffordStrict(doc, cost) == doc.coins > cost

\* userWalletSchema.methods.canAfford
CanAfford(doc, cost) == doc.coins >= cost

\* addCoins that leaves totalEarned alone.
AddCoinsNoTotal(doc, amount) == [doc EXCEPT !.coins = doc.coins + amount]

\* userWalletSchema.methods.addCoins for amount > 0.
AddCoinsDoc(doc, amount) ==
  [doc EXCEPT !.coins = doc.coins + amount,
              !.totalEarned = doc.totalEarned + amount]

\* userWalletSchema.methods.spendCoins for an affordable amount > 0.
SpendCoinsDoc(doc, amount) ==
  [doc EXCEPT !.coins = doc.coins - amount,
              !.totalSpent = doc.totalSpent + amount]

\* The wallet schema's validators: every field has min 0.
ValidWallet(doc) ==
  /\ doc.coins >= 0
  /\ doc.totalEarned >= 0
  /\ doc.totalSpent >= 0

\* ---------------------------------------------------------- UnlockRegistry
SeqHas(s, id) == \E i \in 1..Len(s) : s[i] = id

\* progress.badges.some(b => b.toString() === badgeId)
HasBadge(doc, id) == SeqHas(doc.badges, id)

\* userProgressSchema.methods.hasAchievement
HasAchievement(doc, id) == SeqHas(doc.achievements, id)

\* userProgressSchema.methods.unlockAchievement: push unless already there.
UnlockAchievementDoc(doc, id) ==
  IF HasAchievement(doc, id) THEN doc
  ELSE [doc EXCEPT !.achievements = Append(doc.achievements, id)]

\* ------------------------------------------------------- RewardCoordinator
\* The rarity switch of awardBadgeToUser; both amounts start at 0.
BadgeCoins(rarity) ==
  CASE rarity = "common" -> 10
    [] rarity = "rare" -> 25
    [] rarity = "epic" -> 50
    [] rarity = "legendary" -> 100
    [] rarity = "unique" -> 250
    [] OTHER -> 0

BadgeXp(rarity) ==
  CASE rarity = "common" -> 20
    [] rarity = "rare" -> 50
    [] rarity = "epic" -> 100
    [] rarity = "legendary" -> 200
    [] rarity = "unique" -> 500
    [] OTHER -> 0

\* -------------------------------------------------------- CriteriaEvaluator
\* availableFrom / availableUntil are optional: the value of a missing date.
Absent == -1

\* The criteria.type enum of badgeSchema, and a type outside it.
CriteriaTypes ==
  {"achievement_count", "level_reached", "coins_earned", "savings_milestone",
   "streak_days", "special_event"}
UnknownType == "legacy_type"

\* BadgeRepository.findActive: { isActive: true }.
FindActive(defs, t) == {id \in DOMAIN defs : defs[id].isActive}

\* BadgeRepository.findAvailable: isActive, and not limited or limited with
\* availableFrom <= now <= availableUntil; a comparison with a missing field
\* matches nothing.
FindAvailable(defs, t) ==
  {id \in DOMAIN defs :
     /\ defs[id].isActive
     /\ \/ ~defs[id].isLimited
        \/ /\ defs[id].isLimited
           /\ defs[id].availableFrom # Absent /\ defs[id].availableFrom <= t
           /\ defs[id].availableUntil # Absent /\ defs[id].availableUntil >= t}

\* The virtual isAvailable of a Badge document at time t: a date that is
\* missing does not bound the window.
IsAvailable(doc, t) ==
  IF ~doc.isActive THEN FALSE
  ELSE IF ~doc.isLimited THEN TRUE
  ELSE IF doc.availableFrom # Absent /\ t < doc.availableFrom THEN FALSE
  ELSE IF doc.availableUntil # Absent /\ t > doc.availableUntil THEN FALSE
  ELSE TRUE

\* The switch of findUnlockableBadges on badge.criteria.type; (x || 0) is x
\* for the numbers the snapshot holds.
MeetsCriteria(doc, stats) ==
  CASE doc.type = "achievement_count" -> stats.achievementCount >= doc.value
    [] doc.type = "level_reached" -> stats.level >= doc.value
    [] doc.type = "coins_earned" -> stats.coinsEarned >= doc.value
    [] doc.type = "savings_milestone" -> stats.totalSavings >= doc.value
    [] doc.type = "streak_days" -> stats.streakDays >= doc.value
    [] doc.type = "special_event" -> FALSE
    [] OTHER -> FALSE

\* The place of a rarity under sort({ rarity: 1 }): the strings' order.
RarityRank(rarity) ==
  CASE rarity = "common" -> 1
    [] rarity = "epic" -> 2
    [] rarity = "legendary" -> 3
    [] rarity = "rare" -> 4
    [] rarity = "unique" -> 5
    [] OTHER -> 6

\* The badges S in the order of sort({ rarity: 1, name: 1 }).
RECURSIVE SortByRarity(_)
SortByRarity(S) ==
  IF S = {} THEN <<>>
  ELSE LET first == CHOOSE x \in S : \A y \in S :
                      RarityRank(BadgeCatalog[x].rarity)
                        <= RarityRank(BadgeCatalog[y].rarity)
       IN <<first>> \o SortByRarity(S \ {first})

\* BadgeRepository.findUnlockableBadges, as the set of the ids it returns.
FindUnlockableBadges(defs, stats, t) ==
  {id \in FindAvailable(defs, t) : MeetsCriteria(defs[id], stats)}

\* ------------------------------------------------------------------- state
VARIABLES
  progress,   \* the stored UserProgress document
  wallet,     \* the stored UserWallet document
  pc,         \* per handler: the await it stands at
  call,       \* per handler: the call it runs
  mem,        \* per handler: the document it loaded and its in-memory copy
  result,     \* per handler: "none", "ok" or the message of the Error thrown
  outcomes,   \* per reward id: the results of the ended grant calls, in order
  stats,      \* per reward id: calls started, fresh unlocks, amounts credited
  ledgerLog,  \* in an audited run: the ended direct ledger calls, in order
  active,     \* the handlers that take requests
  workload,   \* the operations the requests ask for
  targets,    \* the reward ids or tokens the requests carry
  amounts,    \* the amounts the direct ledger requests carry
  audit,      \* whether the run keeps ledgerLog and is limited to MaxCalls
  blacklist,  \* the stored BlacklistedToken documents, in insertion order
  now,        \* the clock, in seconds
  tpc,        \* per handler: its place in logout / authenticateJWT
  treq,       \* per handler: the token request it serves
  revoked,    \* the tokens some logout call has returned success for
  response,   \* the last response a token request ended with
  started,    \* the token requests started so far
  badgeDefs,  \* the stored Badge documents' availability and criteria fields
  evaluation, \* the last findUnlockableBadges call: its inputs and result
  batch       \* per handler: the checkAndAwardBadges call it runs

engineVars == <<progress, wallet, pc, call, mem, result, outcomes, stats,
                ledgerLog>>
tokenVars == <<blacklist, now, tpc, treq, revoked, response, started>>
envVars == <<active, workload, targets, amounts, audit, badgeDefs, evaluation,
            batch>>
vars == <<progress, wallet, pc, call, mem, result, outcomes, stats, ledgerLog,
          active, workload, targets, amounts, audit, blacklist, now, tpc, treq, revoked,
          response, started, badgeDefs, evaluation, batch>>

GrantOps == {"awardBadge", "unlockAchievement"}
LedgerOps == {"addExperience", "addCoins", "spendCoins"}

NoCall == [op |-> "none", id |-> "", coins |-> 0, xp |-> 0]
NoMem == [kind |-> "none"]

\* UserProgressRepository.createForUser
NewProgress ==
  [level |-> 1, experience |-> 0, experienceToNextLevel |-> 100,
   levelProgress |-> 0, achievements |-> <<>>, badges |-> <<>>]

\* UserWalletRepository.createForUser
NewWallet(initialCoins) ==
  [coins |-> initialCoins, totalEarned |-> initialCoins, totalSpent |-> 0]

NoStats == [calls |-> 0, fresh |-> 0, coins |-> 0, xp |-> 0]

\* The userStats snapshots a caller may pass to findUnlockableBadges.
Snapshots ==
  [achievementCount : {0, 2}, level : {1, 2}, coinsEarned : {0, 2},
   totalSavings : {0, 2}, streakDays : {0, 2}]

NoEvaluation ==
  [done |-> FALSE, at |-> 0, available |-> {}, ids |-> {},
   stats |-> [achievementCount |-> 0, level |-> 1, coinsEarned |-> 0,
              totalSavings |-> 0, streakDays |-> 0]]

\* The Badge documents createBadge can store, by the fields the evaluator
\* reads: a limited badge may lack either date, an unlimited one has both or
\* none.
BadgeDocs ==
  {doc \in [isActive : BOOLEAN, isLimited : BOOLEAN,
            availableFrom : {Absent, 1}, availableUntil : {Absent, 2},
            type : CriteriaTypes \cup {UnknownType}, value : {0, 2}] :
     doc.isLimited \/ ((doc.availableFrom = Absent)
                         <=> (doc.availableUntil = Absent))}

\* A badge every user qualifies for.
OpenBadge ==
  [isActive |-> TRUE, isLimited |-> FALSE, availableFrom |-> Absent,
   availableUntil |-> Absent, type |-> "level_reached", value |-> 0]

\* The criteria the badges of BadgeCatalog may carry in a bulk run.
BulkCriteria ==
  {[type |-> "level_reached", value |-> 1],
   [type |-> "level_reached", value |-> 2],
   [type |-> "coins_earned", value |-> 10],
   [type |-> "special_event", value |-> 0]}

\* The Badge collections of the bulk runs: the badges of BadgeCatalog, none
\* of them limited, each with one of the criteria.
BulkCatalogs ==
  {[id \in DOMAIN BadgeCatalog |->
      [isActive |-> BadgeCatalog[id].isActive, isLimited |-> FALSE,
       availableFrom |-> Absent, availableUntil |-> Absent,
       type |-> c[id].type, value |-> c[id].value]] :
     c \in [DOMAIN BadgeCatalog -> BulkCriteria]}

\* No checkAndAwardBadges call: `before` is progress.badges as the call read
\* it, `earnedBefore` the wallet's totalEarned and `xpBefore` the experience
\* granted to the user when the call began, `coinsEarned` the field of that
\* name in the call's userStats, `todo` the newBadges still to award,
\* `inflight` the badge being awarded.
NoBatch ==
  [state |-> "none", before |-> <<>>, earnedBefore |-> 0, xpBefore |-> 0,
   coinsEarned |-> 0, todo |-> <<>>, inflight |-> "",
   badgesAwarded |-> <<>>, totalCoins |-> 0, totalExperience |-> 0]

\* The Badge collection of the runs that earn, spend and ask for badges: the
\* common badge is for 10 coins earned, the others are unlocked by hand.
EarningsCatalog ==
  [id \in DOMAIN BadgeCatalog |->
     [isActive |-> BadgeCatalog[id].isActive, isLimited |-> FALSE,
      availableFrom |-> Absent, availableUntil |-> Absent,
      type |-> IF id = "bCommon" THEN "coins_earned" ELSE "special_event",
      value |-> IF id = "bCommon" THEN 10 ELSE 0]]

\* The Badge collections of the runs that query the evaluator directly:
\* the open badge and one more document.
ProbeCatalogs ==
  {[id \in {"bOpen", "bProbe"} |-> IF id = "bOpen" THEN OpenBadge ELSE doc] :
     doc \in BadgeDocs}

\* ------------------------------------------------------------ document.save
\* What the array s gained in memory since it was loaded.
Pushed(loaded, s) == SubSeq(s, Len(loaded) + 1, Len(s))

\* save() of a progress document: the paths whose value differs from the
\* loaded one are $set, array pushes are $push-ed onto the stored array; the
\* other stored paths stay as they are.
SaveProgress(stored, loaded, doc) ==
  [level |-> IF doc.level # loaded.level THEN doc.level ELSE stored.level,
   experience |-> IF doc.experience # loaded.experience
                  THEN doc.experience ELSE stored.experience,
   experienceToNextLevel |->
       IF doc.experienceToNextLevel # loaded.experienceToNextLevel
       THEN doc.experienceToNextLevel ELSE stored.experienceToNextLevel,
   levelProgress |-> IF doc.levelProgress # loaded.levelProgress
                     THEN doc.levelProgress ELSE stored.levelProgress,
   achievements |-> stored.achievements
                      \o Pushed(loaded.achievements, doc.achievements),
   badges |-> stored.badges \o Pushed(loaded.badges, doc.badges)]

\* save() of a wallet document.
SaveWallet(stored, loaded, doc) ==
  [coins |-> IF doc.coins # loaded.coins THEN doc.coins ELSE stored.coins,
   totalEarned |-> IF doc.totalEarned # loaded.totalEarned
                   THEN doc.totalEarned ELSE stored.totalEarned,
   totalSpent |-> IF doc.totalSpent # loaded.totalSpent
                  THEN doc.totalSpent ELSE stored.totalSpent]

\* ------------------------------------------------------------ control flow
\* Handler p goes on to the await `label`.
Goto(p, label, c, m) ==
  /\ pc' = [pc EXCEPT ![p] = label]
  /\ call' = [call EXCEPT ![p] = c]
  /\ mem' = [mem EXCEPT ![p] = m]
  /\ UNCHANGED <<result, outcomes, ledgerLog>>

\* The call c of handler p ends and its caller sees `outcome`.
End(p, c, outcome) ==
  /\ pc' = [pc EXCEPT ![p] = "idle"]
  /\ call' = [call EXCEPT ![p] = NoCall]
  /\ mem' = [mem EXCEPT ![p] = NoMem]
  /\ result' = [result EXCEPT ![p] = outcome]
  /\ outcomes' = IF c.op \in GrantOps
                 THEN [outcomes EXCEPT ![c.id] = Append(@, outcome)]
                 ELSE outcomes
  /\ ledgerLog' = IF audit /\ c.op \in LedgerOps
                  THEN Append(ledgerLog,
                              [op |-> c.op,
                               amount |-> IF c.op = "addExperience"
                                          THEN c.xp ELSE c.coins,
                               outcome |-> outcome])
                  ELSE ledgerLog

FailSwallowed(p, c, msg) == End(p, c, "ok")

\* An Error thrown inside a service or repository method: nothing on the way
\* catches it, so the call ends with it.
Fail(p, c, msg) == End(p, c, msg)

\* The await after repository.addCoins / addExperience, per calling method.
AfterAddCoins(op) == IF op = "awardBadge" THEN "addExp" ELSE "idle"
AfterAddExp(op) == IF op = "unlockAchievement" THEN "addCoins" ELSE "idle"

Step(p, next, c) ==
  IF next = "idle" THEN End(p, c, "ok") ELSE Goto(p, next, c, NoMem)

\* The grant calls started so far, over the reward ids S.
RECURSIVE CallsStarted(_)
CallsStarted(S) ==
  IF S = {} THEN 0
  ELSE LET r == CHOOSE x \in S : TRUE
       IN stats[r].calls + CallsStarted(S \ {r})

\* The experience the grant calls for the reward ids S have credited so far.
RECURSIVE XpCredited(_)
XpCredited(S) ==
  IF S = {} THEN 0
  ELSE LET r == CHOOSE x \in S : TRUE
       IN stats[r].xp + XpCredited(S \ {r})

\* ------------------------------------------- BadgeService.awardBadgeToUser
\* findById, the isActive test and userHasBadge: the first read of the call.
\* awardBadgeToUser without the isActive test.
AwardBadgeEntryAnyState(p, id) ==
  /\ stats' = [stats EXCEPT ![id].calls = @ + 1]
  /\ LET c == [NoCall EXCEPT !.op = "awardBadge", !.id = id]
     IN IF id \notin DOMAIN BadgeCatalog
        THEN Fail(p, c, "Badge not found")
        ELSE IF HasBadge(progress, id)
        THEN Fail(p, c, "User already has this badge")
        ELSE Goto(p, "addBadge", c, NoMem)
  /\ UNCHANGED <<progress, wallet>>

AwardBadgeEntry(p, id) ==
  /\ stats' = [stats EXCEPT ![id].calls = @ + 1]
  /\ LET c == [NoCall EXCEPT !.op = "awardBadge", !.id = id]
     IN IF id \notin DOMAIN BadgeCatalog
        THEN Fail(p, c, "Badge not found")
        ELSE IF ~BadgeCatalog[id].isActive
        THEN Fail(p, c, "Badge is not active")
        ELSE IF HasBadge(progress, id)
        THEN Fail(p, c, "User already has this badge")
        ELSE Goto(p, "addBadge", c, NoMem)
  /\ UNCHANGED <<progress, wallet>>

\* A caller enters BadgeService.awardBadgeToUser(userId, badgeId).
CallAwardBadge(p, id) ==
  /\ p \in active /\ pc[p] = "idle" /\ tpc[p] = "idle"
  /\ "awardBadge" \in workload
  /\ id \in targets \cap BadgeIds
  /\ CallsStarted(targets) < MaxCalls
  /\ AwardBadgeEntry(p, id)
  /\ UNCHANGED <<envVars, tokenVars>>

\* UserProgressRepository.addBadge up to its save: find, test, push.
AddBadgeFind(p) ==
  /\ pc[p] = "addBadge"
  /\ IF HasBadge(progress, call[p].id)
     THEN Fail(p, call[p], "User already has this badge")
     ELSE Goto(p, "addBadgeSave", call[p],
               [kind |-> "progress", loaded |-> progress,
                doc |-> [progress EXCEPT
                           !.badges = Append(@, call[p].id)]])
  /\ UNCHANGED <<progress, wallet, stats>>
  /\ UNCHANGED <<envVars, tokenVars>>

\* The save of addBadge, then the rarity switch of awardBadgeToUser.
AddBadgeSave(p) ==
  /\ pc[p] = "addBadgeSave"
  /\ progress' = SaveProgress(progress, mem[p].loaded, mem[p].doc)
  /\ stats' = [stats EXCEPT ![call[p].id].fresh = @ + 1]
  /\ IF call[p].op = "awardBadge"
     THEN Goto(p, "addCoins",
               [call[p] EXCEPT
                  !.coins = BadgeCoins(BadgeCatalog[call[p].id].rarity),
                  !.xp = BadgeXp(BadgeCatalog[call[p].id].rarity)],
               NoMem)
     ELSE End(p, call[p], "ok")
  /\ UNCHANGED wallet
  /\ UNCHANGED <<envVars, tokenVars>>

\* --------------------------------------- AchievementService.unlockAchievement
\* The user and achievement lookups, the isActive test and hasAchievement.
CallUnlockAchievement(p, id) ==
  /\ p \in active /\ pc[p] = "idle" /\ tpc[p] = "idle"
  /\ "unlockAchievement" \in workload
  /\ id \in targets \cap AchievementIds
  /\ CallsStarted(targets) < MaxCalls
  /\ stats' = [stats EXCEPT ![id].calls = @ + 1]
  /\ LET c == [NoCall EXCEPT !.op = "unlockAchievement", !.id = id]
     IN IF id \notin DOMAIN AchievementCatalog
        THEN Fail(p, c, "Achievement not found")
        ELSE IF ~AchievementCatalog[id].isActive
        THEN Fail(p, c, "This achievement is not available")
        ELSE IF HasAchievement(progress, id)
        THEN Fail(p, c, "Achievement already unlocked")
        ELSE Goto(p, "unlock", c, NoMem)
  /\ UNCHANGED <<progress, wallet>>
  /\ UNCHANGED <<envVars, tokenVars>>

\* UserProgressRepository.unlockAchievement up to its save.
UnlockFind(p) ==
  /\ pc[p] = "unlock"
  /\ Goto(p, "unlockSave", call[p],
          [kind |-> "progress", loaded |-> progress,
           doc |-> UnlockAchievementDoc(progress, call[p].id)])
  /\ UNCHANGED <<progress, wallet, stats>>
  /\ UNCHANGED <<envVars, tokenVars>>

\* Its save; the service goes on to the rewards whatever the method did.
UnlockSave(p) ==
  /\ pc[p] = "unlockSave"
  /\ progress' = SaveProgress(progress, mem[p].loaded, mem[p].doc)
  /\ stats' = [stats EXCEPT ![call[p].id].fresh = @ + 1]
  /\ IF call[p].op = "unlockAchievement"
     THEN Goto(p, "addExp",
               [call[p] EXCEPT
                  !.coins = AchievementCatalog[call[p].id].coins,
                  !.xp = AchievementCatalog[call[p].id].experience],
               NoMem)
     ELSE End(p, call[p], "ok")
  /\ UNCHANGED wallet
  /\ UNCHANGED <<envVars, tokenVars>>

\* ---------------------------------------- BadgeService.checkAndAwardBadges
\* userStats as checkAndAwardBadges builds it from the stored progress and
\* wallet (a profile without savings; streakDays is the constant 0).
UserStats ==
  [achievementCount |-> Len(progress.achievements),
   level |-> progress.level,
   coinsEarned |-> wallet.coins,
   totalSavings |-> 0, streakDays |-> 0]

\* The reads of progress, wallet and profile (a profile without savings),
\* findUnlockableBadges on the snapshot, and the filter on the badges held.
CallCheckAndAwardBadges(p) ==
  /\ p \in active /\ pc[p] = "idle" /\ tpc[p] = "idle"
  /\ "checkAndAwardBadges" \in workload
  /\ batch[p].state # "running"
  /\ LET userStats == UserStats
         unlockableBadges == FindUnlockableBadges(badgeDefs, userStats, now)
         newBadges == {id \in unlockableBadges : ~HasBadge(progress, id)}
     IN batch' = [batch EXCEPT ![p] =
                    [NoBatch EXCEPT !.state = "running",
                                    !.before = progress.badges,
                                    !.earnedBefore = wallet.totalEarned,
                                    !.xpBefore = XpCredited(DOMAIN stats),
                                    !.coinsEarned = userStats.coinsEarned,
                                    !.todo = SortByRarity(newBadges)]]
  /\ UNCHANGED <<active, workload, targets, amounts, audit, badgeDefs, evaluation>>
  /\ UNCHANGED <<engineVars, tokenVars>>

\* The loop going to the next badge without a call of awardBadgeToUser.
BatchSkip(p) ==
  /\ batch[p].state = "running" /\ batch[p].inflight = ""
  /\ batch[p].todo # <<>>
  /\ pc[p] = "idle"
  /\ batch' = [batch EXCEPT ![p].todo = Tail(@)]
  /\ UNCHANGED <<active, workload, targets, amounts, audit, badgeDefs, evaluation>>
  /\ UNCHANGED <<engineVars, tokenVars>>

\* The loop body up to the first await of awardBadgeToUser.
BatchAward(p) ==
  /\ batch[p].state = "running" /\ batch[p].inflight = ""
  /\ batch[p].todo # <<>>
  /\ pc[p] = "idle"
  /\ AwardBadgeEntry(p, Head(batch[p].todo))
  /\ batch' = [batch EXCEPT ![p].inflight = Head(batch[p].todo)]
  /\ UNCHANGED <<active, workload, targets, amounts, audit, badgeDefs, evaluation>>
  /\ UNCHANGED tokenVars

\* awardBadgeToUser has returned or thrown: the pushes and sums of the try,
\* or the catch that logs the error; then the next badge.
BatchCollect(p) ==
  /\ batch[p].state = "running" /\ batch[p].inflight # ""
  /\ pc[p] = "idle"
  /\ LET id == batch[p].inflight
         rarity == BadgeCatalog[id].rarity
     IN batch' = [batch EXCEPT ![p] =
          IF result[p] = "ok"
          THEN [@ EXCEPT !.badgesAwarded = Append(@, id),
                         !.totalCoins = @ + BadgeCoins(rarity),
                         !.totalExperience = @ + BadgeXp(rarity),
                         !.todo = Tail(@), !.inflight = ""]
          ELSE [@ EXCEPT !.todo = Tail(@), !.inflight = ""]]
  /\ UNCHANGED <<active, workload, targets, amounts, audit, badgeDefs, evaluation>>
  /\ UNCHANGED <<engineVars, tokenVars>>

\* The return of badgesAwarded, totalCoins and totalExperience.
BatchReturn(p) ==
  /\ batch[p].state = "running" /\ batch[p].inflight = ""
  /\ batch[p].todo = <<>>
  /\ batch' = [batch EXCEPT ![p].state = "done"]
  /\ UNCHANGED <<active, workload, targets, amounts, audit, badgeDefs, evaluation>>
  /\ UNCHANGED <<engineVars, tokenVars>>

\* ---------------------------------------------- direct evaluator requests
\* BadgeRepository.findUnlockableBadges(userStats): findAvailable reads the
\* clock and the collection, the filter runs on what it returned.
CallFindUnlockableBadges(p) ==
  /\ p \in active /\ pc[p] = "idle" /\ tpc[p] = "idle"
  /\ "findUnlockableBadges" \in workload
  /\ \E snapshot \in Snapshots :
       evaluation' = [done |-> TRUE, at |-> now, stats |-> snapshot,
                      available |-> FindAvailable(badgeDefs, now),
                      ids |-> FindUnlockableBadges(badgeDefs, snapshot, now)]
  /\ UNCHANGED <<active, workload, targets, amounts, audit, badgeDefs, batch>>
  /\ UNCHANGED <<engineVars, tokenVars>>

\* ----------------------------------------------- direct registry requests
RegistryOps == {"repo.addBadge", "repo.unlockAchievement"}

\* A caller enters UserProgressRepository.addBadge(userId, badgeId).
CallAddBadge(p, id) ==
  /\ p \in active /\ pc[p] = "idle" /\ tpc[p] = "idle"
  /\ "repo.addBadge" \in workload
  /\ id \in targets \cap BadgeIds
  /\ CallsStarted(targets) < MaxCalls
  /\ stats' = [stats EXCEPT ![id].calls = @ + 1]
  /\ Goto(p, "addBadge", [NoCall EXCEPT !.op = "repo.addBadge", !.id = id],
          NoMem)
  /\ UNCHANGED <<progress, wallet>>
  /\ UNCHANGED <<envVars, tokenVars>>

\* A caller enters UserProgressRepository.unlockAchievement(userId, id).
CallRepoUnlockAchievement(p, id) ==
  /\ p \in active /\ pc[p] = "idle" /\ tpc[p] = "idle"
  /\ "repo.unlockAchievement" \in workload
  /\ id \in targets \cap AchievementIds
  /\ CallsStarted(targets) < MaxCalls
  /\ stats' = [stats EXCEPT ![id].calls = @ + 1]
  /\ Goto(p, "unlock",
          [NoCall EXCEPT !.op = "repo.unlockAchievement", !.id = id], NoMem)
  /\ UNCHANGED <<progress, wallet>>
  /\ UNCHANGED <<envVars, tokenVars>>

\* ------------------------------------------------- direct ledger requests
\* An audited run takes MaxCalls direct ledger requests in all.
LedgerCallAllowed ==
  audit =>
    Len(ledgerLog) + Cardinality({q \in Procs : pc[q] # "idle"}) < MaxCalls

CallAddExperience(p) ==
  /\ p \in active /\ pc[p] = "idle" /\ tpc[p] = "idle"
  /\ "addExperience" \in workload
  /\ progress.level < MaxLevel
  /\ LedgerCallAllowed
  /\ \E amount \in amounts :
       Goto(p, "addExp",
            [NoCall EXCEPT !.op = "addExperience", !.xp = amount], NoMem)
  /\ UNCHANGED <<progress, wallet, stats>>
  /\ UNCHANGED <<envVars, tokenVars>>

CallAddCoins(p) ==
  /\ p \in active /\ pc[p] = "idle" /\ tpc[p] = "idle"
  /\ "addCoins" \in workload
  /\ batch[p].state # "running"
  /\ LedgerCallAllowed
  /\ \E amount \in amounts :
       /\ wallet.totalEarned + amount <= MaxCoins
       /\ Goto(p, "addCoins",
               [NoCall EXCEPT !.op = "addCoins", !.coins = amount], NoMem)
  /\ UNCHANGED <<progress, wallet, stats>>
  /\ UNCHANGED <<envVars, tokenVars>>

CallSpendCoins(p) ==
  /\ p \in active /\ pc[p] = "idle" /\ tpc[p] = "idle"
  /\ "spendCoins" \in workload
  /\ batch[p].state # "running"
  /\ LedgerCallAllowed
  /\ \E amount \in amounts :
       Goto(p, "spendCoins",
            [NoCall EXCEPT !.op = "spendCoins", !.coins = amount], NoMem)
  /\ UNCHANGED <<progress, wallet, stats>>
  /\ UNCHANGED <<envVars, tokenVars>>

\* ----------------------------------------------------- UserWalletRepository
\* addCoins up to its save: find, then the document's addCoins.
AddCoinsFind(p) ==
  /\ pc[p] = "addCoins"
  /\ IF call[p].coins <= 0
     THEN Fail(p, call[p], "Amount must be positive")
     ELSE Goto(p, "addCoinsSave", call[p],
               [kind |-> "wallet", loaded |-> wallet,
                doc |-> AddCoinsDoc(wallet, call[p].coins)])
  /\ UNCHANGED <<progress, wallet, stats>>
  /\ UNCHANGED <<envVars, tokenVars>>

AddCoinsSave(p) ==
  /\ pc[p] = "addCoinsSave"
  /\ IF ValidWallet(mem[p].doc)
     THEN /\ wallet' = SaveWallet(wallet, mem[p].loaded, mem[p].doc)
          /\ stats' = IF call[p].op \in GrantOps
                      THEN [stats EXCEPT ![call[p].id].coins = @ + call[p].coins]
                      ELSE stats
          /\ Step(p, AfterAddCoins(call[p].op), call[p])
     ELSE /\ Fail(p, call[p], "Validation failed")
          /\ UNCHANGED <<wallet, stats>>
  /\ UNCHANGED progress
  /\ UNCHANGED <<envVars, tokenVars>>

\* spendCoins up to its save: find, then the document's spendCoins.
SpendCoinsFind(p) ==
  /\ pc[p] = "spendCoins"
  /\ IF call[p].coins <= 0
     THEN Fail(p, call[p], "Amount must be positive")
     ELSE IF ~CanAfford(wallet, call[p].coins)
     THEN Fail(p, call[p], "Insufficient coins")
     ELSE Goto(p, "spendCoinsSave", call[p],
               [kind |-> "wallet", loaded |-> wallet,
                doc |-> SpendCoinsDoc(wallet, call[p].coins)])
  /\ UNCHANGED <<progress, wallet, stats>>
  /\ UNCHANGED <<envVars, tokenVars>>

SpendCoinsSave(p) ==
  /\ pc[p] = "spendCoinsSave"
  /\ IF ValidWallet(mem[p].doc)
     THEN /\ wallet' = SaveWallet(wallet, mem[p].loaded, mem[p].doc)
          /\ End(p, call[p], "ok")
     ELSE /\ Fail(p, call[p], "Validation failed")
          /\ UNCHANGED wallet
  /\ UNCHANGED <<progress, stats>>
  /\ UNCHANGED <<envVars, tokenVars>>

\* --------------------------------------------------- UserProgressRepository
\* addExperience up to its save: find, then the document's addExperience.
\* addExperience without the test of its amount.
AddExpFindUnchecked(p) ==
  /\ pc[p] = "addExp"
  /\ Goto(p, "addExpSave", call[p],
          [kind |-> "progress", loaded |-> progress,
           doc |-> AddExperienceDoc(progress, call[p].xp)])
  /\ UNCHANGED <<progress, wallet, stats>>
  /\ UNCHANGED <<envVars, tokenVars>>

AddExpFind(p) ==
  /\ pc[p] = "addExp"
  /\ IF call[p].xp <= 0
     THEN Fail(p, call[p], "Experience amount must be positive")
     ELSE Goto(p, "addExpSave", call[p],
               [kind |-> "progress", loaded |-> progress,
                doc |-> AddExperienceDoc(progress, call[p].xp)])
  /\ UNCHANGED <<progress, wallet, stats>>
  /\ UNCHANGED <<envVars, tokenVars>>

AddExpSave(p) ==
  /\ pc[p] = "addExpSave"
  /\ IF ValidProgress(mem[p].doc)
     THEN /\ progress' = SaveProgress(progress, mem[p].loaded, mem[p].doc)
          /\ stats' = IF call[p].op \in GrantOps
                      THEN [stats EXCEPT ![call[p].id].xp = @ + call[p].xp]
                      ELSE stats
          /\ Step(p, AfterAddExp(call[p].op), call[p])
     ELSE /\ Fail(p, call[p], "Validation failed")
          /\ UNCHANGED <<progress, stats>>
  /\ UNCHANGED wallet
  /\ UNCHANGED <<envVars, tokenVars>>

\* ------------------------------------------------------------------ tokens
\* The bearer tokens requests carry.  exp is the payload's exp claim in
\* seconds (0: the payload has none); a token that jwt.decode cannot read has
\* no payload at all.
TokenCatalog ==
  [ tA       |-> [decodable |-> TRUE,  exp |-> 1, signed |-> TRUE,  sub |-> "u1"],
    tB       |-> [decodable |-> TRUE,  exp |-> 2, signed |-> TRUE,  sub |-> "u2"],
    tNoExp   |-> [decodable |-> TRUE,  exp |-> 0, signed |-> TRUE,  sub |-> "u1"],
    tForged  |-> [decodable |-> TRUE,  exp |-> 2, signed |-> FALSE, sub |-> "u1"],
    tGarbage |-> [decodable |-> FALSE, exp |-> 0, signed |-> FALSE, sub |-> ""] ]
TokenIds == DOMAIN TokenCatalog
UserIds == {"u1", "u2"}

\* Date.now(), in milliseconds.
NowMs == now * 1000

\* An expiry recomputed at revocation, as the current instant plus a token
\* lifetime of two seconds.
GetTokenExpirationRecomputed(token) ==
  IF ~TokenCatalog[token].decodable THEN 0 ELSE NowMs + 2000

\* getTokenExpiration: new Date(decoded.exp * 1000) in milliseconds, or 0 for
\* null (no payload, or no exp in it).
GetTokenExpiration(token) ==
  IF ~TokenCatalog[token].decodable \/ TokenCatalog[token].exp = 0 THEN 0
  ELSE TokenCatalog[token].exp * 1000

\* isBlacklisted looking the token up in the wrong field.
IsBlacklistedByUser(bl, token) == \E i \in 1..Len(bl) : bl[i].userId = token

\* BlacklistedToken.isBlacklisted: exists({ token }).
IsBlacklisted(bl, token) == \E i \in 1..Len(bl) : bl[i].token = token

\* jwt.decode in the place of jwt.verify: any payload is accepted.
JwtDecodeOnly(token) == TokenCatalog[token].decodable

\* jwt.verify(token, secret): the payload is accepted when the token is well
\* formed, carries the secret's signature, and floor(Date.now() / 1000) is
\* below its exp, if it has one.
JwtVerify(token) ==
  /\ TokenCatalog[token].decodable
  /\ TokenCatalog[token].signed
  /\ (TokenCatalog[token].exp # 0 => NowMs \div 1000 < TokenCatalog[token].exp)

\* The filter of cleanExpiredTokens: { expiresAt: { $lt: new Date() } }.
ExpiredForSweep(rec) == rec.expiresAt < NowMs

\* deleteMany({ expiresAt: { $lt: new Date() } }): the documents left.
SweepExpired(bl) == SelectSeq(bl, LAMBDA rec : ~ExpiredForSweep(rec))

\* The TTL index { expiresAt: 1 }, expireAfterSeconds 0: the monitor may
\* remove a document once its expiresAt is not in the future.
ExpiredForTtl(rec) == rec.expiresAt <= NowMs

\* The token request a handler serves: the call and its arguments.
NoReq == [op |-> "none", token |-> "", user |-> "", afterLogout |-> FALSE]

NoResponse == [op |-> "none", token |-> "", status |-> 0, message |-> "",
               user |-> "", afterLogout |-> FALSE]

\* The token request of handler p ends with `status` and `message`.
Respond(p, req, status, message, user) ==
  /\ tpc' = [tpc EXCEPT ![p] = "idle"]
  /\ treq' = [treq EXCEPT ![p] = NoReq]
  /\ response' = [op |-> req.op, token |-> req.token, status |-> status,
                  message |-> message, user |-> user,
                  afterLogout |-> req.afterLogout]

\* A caller enters AuthService.logout(token, userId).
CallLogout(p) ==
  /\ p \in active /\ pc[p] = "idle" /\ tpc[p] = "idle"
  /\ started < MaxCalls
  /\ started' = started + 1
  /\ \E token \in targets \cap TokenIds, userId \in UserIds :
       /\ tpc' = [tpc EXCEPT ![p] = "logoutCheck"]
       /\ treq' = [treq EXCEPT ![p] = [NoReq EXCEPT !.op = "logout",
                                                    !.token = token,
                                                    !.user = userId]]
  /\ UNCHANGED <<blacklist, now, revoked, response>>
  /\ UNCHANGED <<engineVars, envVars>>

\* logout without its isTokenBlacklisted test.
LogoutNoCheck(p) ==
  /\ tpc[p] = "logoutCheck"
  /\ tpc' = [tpc EXCEPT ![p] = "blacklist"]
  /\ UNCHANGED <<treq, blacklist, now, revoked, response, started>>
  /\ UNCHANGED <<engineVars, envVars>>

\* AuthService.logout up to blacklistToken: the isTokenBlacklisted test.
LogoutCheck(p) ==
  /\ tpc[p] = "logoutCheck"
  /\ IF IsBlacklisted(blacklist, treq[p].token)
     THEN Respond(p, treq[p], 500, "Token is already invalidated",
                  treq[p].user)
     ELSE /\ tpc' = [tpc EXCEPT ![p] = "blacklist"]
          /\ UNCHANGED <<treq, response>>
  /\ UNCHANGED <<blacklist, now, revoked, started>>
  /\ UNCHANGED <<engineVars, envVars>>

\* blacklistToken on a collection without the unique index on token.
LogoutBlacklistNoIndex(p) ==
  /\ tpc[p] = "blacklist"
  /\ LET token == treq[p].token
         expiration == GetTokenExpiration(token)
     IN IF expiration = 0
        THEN /\ Respond(p, treq[p], 500, "Invalid token", treq[p].user)
             /\ UNCHANGED <<blacklist, revoked>>
        ELSE /\ blacklist' = Append(blacklist,
                               [token |-> token, userId |-> treq[p].user,
                                expiresAt |-> expiration])
             /\ revoked' = revoked \cup {token}
             /\ Respond(p, treq[p], 200, "Logout successful", treq[p].user)
  /\ UNCHANGED <<now, started>>
  /\ UNCHANGED <<engineVars, envVars>>

\* blacklistToken: getTokenExpiration, then BlacklistedToken.create, which
\* the unique index on token refuses when the token is stored already.
LogoutBlacklist(p) ==
  /\ tpc[p] = "blacklist"
  /\ LET token == treq[p].token
         expiration == GetTokenExpiration(token)
     IN IF expiration = 0
        THEN /\ Respond(p, treq[p], 500, "Invalid token", treq[p].user)
             /\ UNCHANGED <<blacklist, revoked>>
        ELSE IF \E i \in 1..Len(blacklist) : blacklist[i].token = token
        THEN /\ Respond(p, treq[p], 500, "E11000 duplicate key", treq[p].user)
             /\ UNCHANGED <<blacklist, revoked>>
        ELSE /\ blacklist' = Append(blacklist,
                               [token |-> token, userId |-> treq[p].user,
                                expiresAt |-> expiration])
             /\ revoked' = revoked \cup {token}
             /\ Respond(p, treq[p], 200, "Logout successful", treq[p].user)
  /\ UNCHANGED <<now, started>>
  /\ UNCHANGED <<engineVars, envVars>>

\* A request enters authenticateJWT: the Authorization header test.
CallAuth(p) ==
  /\ p \in active /\ pc[p] = "idle" /\ tpc[p] = "idle"
  /\ started < MaxCalls
  /\ started' = started + 1
  /\ \E header \in {"", "Basic"} \cup (targets \cap TokenIds) :
       LET req == [NoReq EXCEPT !.op = "auth", !.token = header,
                                !.afterLogout = header \in revoked]
       IN IF header \notin TokenIds
          THEN Respond(p, req, 401, "Unauthorized", "")
          ELSE /\ tpc' = [tpc EXCEPT ![p] = "authCheck"]
               /\ treq' = [treq EXCEPT ![p] = req]
               /\ UNCHANGED response
  /\ UNCHANGED <<blacklist, now, revoked>>
  /\ UNCHANGED <<engineVars, envVars>>

\* authenticateJWT: the isTokenBlacklisted test.
AuthCheck(p) ==
  /\ tpc[p] = "authCheck"
  /\ IF IsBlacklisted(blacklist, treq[p].token)
     THEN Respond(p, treq[p], 401, "Token has been revoked", "")
     ELSE /\ tpc' = [tpc EXCEPT ![p] = "verify"]
          /\ UNCHANGED <<treq, response>>
  /\ UNCHANGED <<blacklist, now, revoked, started>>
  /\ UNCHANGED <<engineVars, envVars>>

\* jwt.verify, then req.user = decoded and next(); a throw is the 401 of the
\* catch.
AuthVerify(p) ==
  /\ tpc[p] = "verify"
  /\ IF JwtVerify(treq[p].token)
     THEN Respond(p, treq[p], 200, "next", TokenCatalog[treq[p].token].sub)
     ELSE Respond(p, treq[p], 401, "Invalid token", "")
  /\ UNCHANGED <<blacklist, now, revoked, started>>
  /\ UNCHANGED <<engineVars, envVars>>

\* cleanExpiredTokens: deleteMany of the expired documents.
CleanExpiredTokens ==
  /\ \E i \in 1..Len(blacklist) : ExpiredForSweep(blacklist[i])
  /\ blacklist' = SweepExpired(blacklist)
  /\ UNCHANGED <<now, tpc, treq, revoked, response, started>>
  /\ UNCHANGED <<engineVars, envVars>>

\* The TTL monitor removes one expired document.
TtlExpire ==
  /\ \E i \in 1..Len(blacklist) :
       /\ ExpiredForTtl(blacklist[i])
       /\ blacklist' = SubSeq(blacklist, 1, i - 1)
                         \o SubSeq(blacklist, i + 1, Len(blacklist))
  /\ UNCHANGED <<now, tpc, treq, revoked, response, started>>
  /\ UNCHANGED <<engineVars, envVars>>

\* A second passes.
Tick ==
  /\ now < MaxTime
  /\ now' = now + 1
  /\ UNCHANGED <<blacklist, tpc, treq, revoked, response, started>>
  /\ UNCHANGED <<engineVars, envVars>>

\* ------------------------------------------------------------ specifications
\* The Badge collection of a run, by the operations the run asks for.
BadgeDefsFor(ops) ==
  IF "findUnlockableBadges" \in ops THEN ProbeCatalogs
  ELSE IF {"checkAndAwardBadges", "spendCoins"} \subseteq ops
  THEN {EarningsCatalog}
  ELSE IF "checkAndAwardBadges" \in ops THEN BulkCatalogs
  ELSE {<<>>}

\* The amounts of the direct ledger requests of a run that is not audited.
DirectAmounts(ops) ==
  IF "addExperience" \in ops THEN -1..MaxXp
  ELSE IF ops \cap {"addCoins", "spendCoins"} # {} THEN -1..MaxCoinAmt
  ELSE {}

\* The user right after registration, no request in flight, empty blacklist.
InitStores ==
  /\ ledgerLog = <<>>
  /\ progress = NewProgress
  /\ wallet = NewWallet(0)
  /\ pc = [p \in Procs |-> "idle"]
  /\ call = [p \in Procs |-> NoCall]
  /\ mem = [p \in Procs |-> NoMem]
  /\ result = [p \in Procs |-> "none"]
  /\ outcomes = [r \in targets \cap RewardIds |-> <<>>]
  /\ stats = [r \in targets \cap RewardIds |-> NoStats]
  /\ blacklist = <<>>
  /\ now = 0
  /\ tpc = [p \in Procs |-> "idle"]
  /\ treq = [p \in Procs |-> NoReq]
  /\ revoked = {}
  /\ response = NoResponse
  /\ started = 0
  /\ badgeDefs \in BadgeDefsFor(workload)
  /\ evaluation = NoEvaluation
  /\ batch = [p \in Procs |-> NoBatch]

\* One badge and one achievement are asked for.
TargetPairs == {{b, a} : b \in BadgeIds, a \in AchievementIds}

NextGrant ==
  \E p \in Procs :
    \/ \E id \in RewardIds : CallAwardBadge(p, id)
    \/ AddBadgeFind(p)
    \/ AddBadgeSave(p)
    \/ \E id \in RewardIds : CallUnlockAchievement(p, id)
    \/ UnlockFind(p)
    \/ UnlockSave(p)
    \/ AddCoinsFind(p)
    \/ AddCoinsSave(p)
    \/ AddExpFind(p)
    \/ AddExpSave(p)

NextRegistry ==
  \E p \in Procs :
    \/ \E id \in RewardIds : CallAddBadge(p, id)
    \/ \E id \in RewardIds : CallRepoUnlockAchievement(p, id)
    \/ AddBadgeFind(p)
    \/ AddBadgeSave(p)
    \/ UnlockFind(p)
    \/ UnlockSave(p)

NextCriteria ==
  \/ \E p \in Procs : CallFindUnlockableBadges(p)
  \/ Tick

NextBulk ==
  \E p \in Procs :
    \/ CallCheckAndAwardBadges(p)
    \/ BatchAward(p)
    \/ BatchCollect(p)
    \/ BatchReturn(p)
    \/ AddBadgeFind(p)
    \/ AddBadgeSave(p)
    \/ AddCoinsFind(p)
    \/ AddCoinsSave(p)
    \/ AddExpFind(p)
    \/ AddExpSave(p)

NextEarnings ==
  \E p \in Procs :
    \/ CallAddCoins(p)
    \/ CallSpendCoins(p)
    \/ SpendCoinsFind(p)
    \/ SpendCoinsSave(p)
    \/ CallCheckAndAwardBadges(p)
    \/ BatchAward(p)
    \/ BatchCollect(p)
    \/ BatchReturn(p)
    \/ AddBadgeFind(p)
    \/ AddBadgeSave(p)
    \/ AddCoinsFind(p)
    \/ AddCoinsSave(p)
    \/ AddExpFind(p)
    \/ AddExpSave(p)

NextLedger ==
  \E p \in Procs :
    \/ CallAddExperience(p)
    \/ CallAddCoins(p)
    \/ CallSpendCoins(p)
    \/ AddCoinsFind(p)
    \/ AddCoinsSave(p)
    \/ SpendCoinsFind(p)
    \/ SpendCoinsSave(p)
    \/ AddExpFind(p)
    \/ AddExpSave(p)

NextToken ==
  \/ \E p \in Procs :
       \/ CallLogout(p)
       \/ LogoutCheck(p)
       \/ LogoutBlacklist(p)
       \/ CallAuth(p)
       \/ AuthCheck(p)
       \/ AuthVerify(p)
  \/ CleanExpiredTokens
  \/ TtlExpire
  \/ Tick

\* Concurrent grant requests for one badge and one achievement.
Init ==
  /\ active = Procs
  /\ workload = GrantOps
  /\ targets \in {{"bCommon", "aGold"}, {"bUnique", "aZero"}}
  /\ amounts = DirectAmounts(workload)
  /\ audit = FALSE
  /\ InitStores

Spec == Init /\ [][NextGrant]_vars

\* Grant requests served one after the other.
InitSeq ==
  /\ active = {1}
  /\ workload = GrantOps
  /\ targets \in TargetPairs
  /\ amounts = DirectAmounts(workload)
  /\ audit = FALSE
  /\ InitStores

SpecSeq == InitSeq /\ [][NextGrant]_vars

\* Ledger requests served one after the other, on one ledger per run.
InitLedger ==
  /\ active = {1}
  /\ workload \in {{"addExperience"}, {"addCoins", "spendCoins"}}
  /\ targets = {}
  /\ amounts = DirectAmounts(workload)
  /\ audit = FALSE
  /\ InitStores

SpecLedger == InitLedger /\ [][NextLedger]_vars

\* The amounts of the requests of an audited run, per ledger.
RaceXpAmounts == {30, 80}
RaceCoinAmounts == {4, 6}

\* Ledger requests served by all the handlers at once, MaxCalls in all, and
\* logged as they end.
InitLedgerRace ==
  /\ active = Procs
  /\ audit = TRUE
  /\ \/ workload = {"addExperience"} /\ amounts = RaceXpAmounts
     \/ workload = {"addCoins", "spendCoins"} /\ amounts = RaceCoinAmounts
  /\ targets = {}
  /\ InitStores

SpecLedgerRace == InitLedgerRace /\ [][NextLedger]_vars

\* Registry calls in sequence, for one badge and one achievement.
InitRegistry ==
  /\ active = {1}
  /\ workload = RegistryOps
  /\ targets \in TargetPairs
  /\ amounts = DirectAmounts(workload)
  /\ audit = FALSE
  /\ InitStores

SpecRegistry == InitRegistry /\ [][NextRegistry]_vars

\* Evaluator calls in sequence while the clock runs.
InitCriteria ==
  /\ active = {1}
  /\ workload = {"findUnlockableBadges"}
  /\ targets = {}
  /\ amounts = DirectAmounts(workload)
  /\ audit = FALSE
  /\ InitStores

SpecCriteria == InitCriteria /\ [][NextCriteria]_vars

\* checkAndAwardBadges calls in sequence.
InitBulk ==
  /\ active = {1}
  /\ workload = {"checkAndAwardBadges"}
  /\ targets = DOMAIN BadgeCatalog
  /\ amounts = DirectAmounts(workload)
  /\ audit = FALSE
  /\ InitStores

SpecBulk == InitBulk /\ [][NextBulk]_vars

\* The same, with the caller repeating the call and every call running on.
SpecBulkFair == SpecBulk /\ WF_vars(NextBulk)

\* The amounts of the wallet requests of an earnings run.
EarningsAmounts == {5, 10}

\* addCoins, spendCoins and checkAndAwardBadges calls in sequence.
InitEarnings ==
  /\ active = {1}
  /\ workload = {"addCoins", "spendCoins", "checkAndAwardBadges"}
  /\ targets = DOMAIN BadgeCatalog
  /\ amounts = EarningsAmounts
  /\ audit = FALSE
  /\ InitStores

SpecEarnings == InitEarnings /\ [][NextEarnings]_vars

\* Concurrent logout and authenticated requests while the clock runs.
InitToken ==
  /\ active = Procs
  /\ workload = {}
  /\ targets \in {{"tA", "tB"}, {"tForged"}, {"tNoExp", "tGarbage"}}
  /\ amounts = DirectAmounts(workload)
  /\ audit = FALSE
  /\ InitStores

SpecToken == InitToken /\ [][NextToken]_vars

\* ================================================================== claims
\* What one payout of reward r is worth, from the catalog.
Grantable(r) ==
  \/ r \in DOMAIN BadgeCatalog /\ BadgeCatalog[r].isActive
  \/ r \in DOMAIN AchievementCatalog /\ AchievementCatalog[r].isActive
PayoutCoins(r) ==
  IF r \in DOMAIN BadgeCatalog THEN BadgeCoins(BadgeCatalog[r].rarity)
  ELSE IF r \in DOMAIN AchievementCatalog THEN AchievementCatalog[r].coins
  ELSE 0
PayoutXp(r) ==
  IF r \in DOMAIN BadgeCatalog THEN BadgeXp(BadgeCatalog[r].rarity)
  ELSE IF r \in DOMAIN AchievementCatalog THEN AchievementCatalog[r].experience
  ELSE 0
Unlocked(doc, r) == HasBadge(doc, r) \/ HasAchievement(doc, r)
\* No grant call for r is running.
Quiet(r) == \A p \in Procs : call[p].id # r
IsError(outcome) == outcome \notin {"ok", "none"}
PayoutPcs == {"addCoins", "addCoinsSave", "addExp", "addExpSave"}

\* C1: however many grant calls for one (user, reward) pair run concurrently
\* or are retried, at most one of them performs a fresh unlock and the ledgers
\* are credited at most one payout; once the calls have ended, exactly one
\* fresh unlock and exactly one payout have happened.
C1_OnePayoutPerPair ==
  \A r \in targets :
    /\ stats[r].fresh <= 1
    /\ stats[r].coins <= PayoutCoins(r)
    /\ stats[r].xp <= PayoutXp(r)
    /\ (Grantable(r) /\ stats[r].calls >= 1 /\ Quiet(r)) =>
         /\ stats[r].fresh = 1
         /\ stats[r].coins = PayoutCoins(r)
         /\ stats[r].xp = PayoutXp(r)

\* C2: two grant calls in sequence for the same pair: the first returns a
\* grant, the second returns normally without granting, and what the two
\* credited is exactly one payout.
C2_SecondCallIsNoOp ==
  \A r \in targets :
    (Grantable(r) /\ Len(outcomes[r]) >= 2) =>
      /\ outcomes[r][1] = "ok"
      /\ ~IsError(outcomes[r][2])
      /\ stats[r].coins = PayoutCoins(r)
      /\ stats[r].xp = PayoutXp(r)

\* C3: after every addExperience call the stored experience is below
\* level * 100, and the stored level never decreases.
C3_ExperienceBelowThreshold ==
  [][/\ progress'.experience < progress'.level * 100
     /\ progress'.level >= progress.level]_vars

\* The reference loop of the specification: add, then level up while the
\* experience reaches level * 100.
RECURSIVE RefLevelUp(_, _)
RefLevelUp(level, experience) ==
  IF experience >= level * 100
  THEN RefLevelUp(level + 1, experience - level * 100)
  ELSE [level |-> level, experience |-> experience]

\* C4: from every (level, experience) with experience < level * 100 and for
\* every positive amount, addExperience computes the level and experience of
\* the reference loop.
C4_MatchesReferenceLoop ==
  [][\A p \in Procs :
       (/\ pc[p] = "addExp" /\ pc'[p] = "addExpSave"
        /\ progress.experience < progress.level * 100) =>
         LET ref == RefLevelUp(progress.level,
                               progress.experience + call[p].xp)
         IN /\ mem'[p].doc.level = ref.level
            /\ mem'[p].doc.experience = ref.experience]_vars

\* C5: after every addCoins / spendCoins call, successful or failing, the
\* stored wallet has coins = totalEarned - totalSpent and coins >= 0.
C5_WalletBalanced ==
  /\ wallet.coins = wallet.totalEarned - wallet.totalSpent
  /\ wallet.coins >= 0

\* C5 witness: coins were earned and spent, and an addCoins call of a
\* non-positive amount has failed.
C5_Witness ==
  /\ wallet.totalSpent > 0
  /\ wallet.coins > 0
  /\ \E p \in Procs : pc[p] = "idle" /\ result[p] = "Amount must be positive"

\* C6: spendCoins of a (positive) amount above the balance ends with the
\* insufficient-funds error and the stored wallet unchanged; of an amount
\* within the balance it takes the amount off coins and adds it to
\* totalSpent.
C6_SpendCoins ==
  [][\A p \in Procs :
       /\ (pc[p] = "spendCoins" /\ pc'[p] # "spendCoins"
           /\ call[p].coins > wallet.coins) =>
            (pc'[p] = "idle" /\ result'[p] = "Insufficient coins"
             /\ wallet' = wallet)
       /\ (pc[p] = "spendCoins" /\ pc'[p] # "spendCoins"
           /\ call[p].coins > 0 /\ call[p].coins <= wallet.coins) =>
            (pc'[p] = "spendCoinsSave" /\ wallet' = wallet)
       /\ (pc[p] = "spendCoinsSave" /\ pc'[p] # "spendCoinsSave") =>
            /\ pc'[p] = "idle" /\ result'[p] = "ok"
            /\ wallet'.coins = wallet.coins - call[p].coins
            /\ wallet'.totalSpent = wallet.totalSpent + call[p].coins
            /\ wallet'.totalEarned = wallet.totalEarned]_vars

\* C6 witness: an overspend has failed on a wallet that holds coins, after an
\* earlier spend went through.
C6_Witness ==
  /\ wallet.coins > 0
  /\ wallet.totalSpent > 0
  /\ \E p \in Procs : pc[p] = "idle" /\ result[p] = "Insufficient coins"
  /\ wallet.totalEarned = MaxCoinAmt

\* The stored BlacklistedToken document of token t, if there is one.
Stored(bl, t) == \E i \in 1..Len(bl) : bl[i].token = t

\* C7: a request that entered authenticateJWT after a logout of its token had
\* succeeded never reaches next(); jwt.verify passes only while the token is
\* short of its exp, so every authenticated request is in the claim's window.
C7_RevokedNeverAuthenticated ==
  ~(response.op = "auth" /\ response.status = 200 /\ response.afterLogout)

\* C7 witness: a request carrying a logged-out token whose signature and exp
\* still pass jwt.verify was turned away as revoked.
C7_Witness ==
  /\ response.op = "auth"
  /\ response.afterLogout
  /\ response.status = 401
  /\ response.message = "Token has been revoked"
  /\ JwtVerify(response.token)

\* C8: once a logout of a token has succeeded, isTokenBlacklisted answers
\* true at every instant before the record's expiresAt and false at every
\* instant after it, deleted or not.
C8_RevokedUntilExpiry ==
  \A t \in revoked :
    /\ (NowMs < GetTokenExpiration(t) => IsBlacklisted(blacklist, t))
    /\ (NowMs > GetTokenExpiration(t) => ~IsBlacklisted(blacklist, t))

\* C9: a logout call whose token has a stored record ends with 'Token is
\* already invalidated' and writes nothing; no step stores a second record
\* for a token, and a record stays as it was written for as long as its
\* token is stored.
C9_SecondRevokeRejected ==
  [][/\ \A p \in Procs :
          (/\ tpc[p] = "logoutCheck" /\ tpc'[p] # "logoutCheck"
           /\ Stored(blacklist, treq[p].token)) =>
            /\ tpc'[p] = "idle"
            /\ response'.op = "logout"
            /\ response'.token = treq[p].token
            /\ response'.status # 200
            /\ response'.message = "Token is already invalidated"
            /\ blacklist' = blacklist
     /\ \A i, j \in 1..Len(blacklist') :
          blacklist'[i].token = blacklist'[j].token => i = j
     /\ \A i \in 1..Len(blacklist) :
          Stored(blacklist', blacklist[i].token) =>
            \E j \in 1..Len(blacklist') : blacklist'[j] = blacklist[i]
    ]_vars

\* C9 witness: the second logout of a token, made for another user, was
\* rejected, and the stored record is the first call's.
C9_Witness ==
  /\ response.op = "logout"
  /\ response.message = "Token is already invalidated"
  /\ response.user = "u2"
  /\ \E i \in 1..Len(blacklist) :
       /\ blacklist[i].token = response.token
       /\ blacklist[i].userId = "u1"
       /\ blacklist[i].expiresAt = GetTokenExpiration(response.token)

\* C10: a payout step that fails after the unlock was written ends the grant
\* call with the error, the unlock record stays stored, and no step ever
\* removes an unlock record.
C10_UnlockKeptFailureSurfaced ==
  [][/\ \A p \in Procs :
          (/\ call[p].op \in GrantOps /\ pc[p] \in PayoutPcs
           /\ pc'[p] = "idle" /\ stats' = stats) =>
            (IsError(result'[p]) /\ Unlocked(progress', call[p].id))
     /\ \A r \in RewardIds : Unlocked(progress, r) => Unlocked(progress', r)
    ]_vars

\* C10 witness: the unique badge is unlocked and its coins are credited, and
\* the call has ended with the error of the experience save.
C10_Witness ==
  /\ HasBadge(progress, "bUnique")
  /\ "bUnique" \in targets
  /\ stats["bUnique"].coins = 250
  /\ stats["bUnique"].xp = 0
  /\ \E p \in Procs : pc[p] = "idle" /\ result[p] = "Validation failed"

\* C11: the first (fresh) grant of an active badge succeeds and credits the
\* wallet with exactly the coins of the badge's rarity and the experience
\* ledger with exactly the rarity's experience.
C11_FreshBadgePayout ==
  \A r \in targets \cap DOMAIN BadgeCatalog :
    (BadgeCatalog[r].isActive /\ Len(outcomes[r]) >= 1) =>
      /\ outcomes[r][1] = "ok"
      /\ stats[r].coins = BadgeCoins(BadgeCatalog[r].rarity)
      /\ stats[r].xp = BadgeXp(BadgeCatalog[r].rarity)

\* C12: the first (fresh) unlock of an active achievement succeeds and
\* credits exactly its reward.coins and its reward.experience, rewards of 0
\* included.
C12_FreshAchievementPayout ==
  \A r \in targets \cap DOMAIN AchievementCatalog :
    (AchievementCatalog[r].isActive /\ Len(outcomes[r]) >= 1) =>
      /\ outcomes[r][1] = "ok"
      /\ stats[r].coins = AchievementCatalog[r].coins
      /\ stats[r].xp = AchievementCatalog[r].experience

\* C13: a registry unlock (addBadge, unlockAchievement of the repository)
\* ends without an error and with the id in the unlocked set; when the id
\* was in the set already the stored progress is left as it was.
C13_UnlockIdempotent ==
  [][\A p \in Procs :
       (call[p].op \in RegistryOps /\ pc[p] # "idle" /\ pc'[p] = "idle") =>
         /\ ~IsError(result'[p])
         /\ Unlocked(progress', call[p].id)
         /\ (Unlocked(progress, call[p].id) => progress' = progress)]_vars

\* What the claim calls available: not limited, or now inside the window.
InWindow(doc, t) ==
  ~doc.isLimited \/ (doc.availableFrom <= t /\ t <= doc.availableUntil)

\* The snapshot field a criteria type stands for ("" for none).
StatsField(type) ==
  CASE type = "achievement_count" -> "achievementCount"
    [] type = "level_reached" -> "level"
    [] type = "coins_earned" -> "coinsEarned"
    [] type = "savings_milestone" -> "totalSavings"
    [] type = "streak_days" -> "streakDays"
    [] OTHER -> ""

\* A limited badge states its window when it has both dates.
WindowStated(doc) ==
  doc.isLimited => (doc.availableFrom # Absent /\ doc.availableUntil # Absent)

RECURSIVE SumCoins(_)
SumCoins(s) ==
  IF s = <<>> THEN 0 ELSE PayoutCoins(Head(s)) + SumCoins(Tail(s))
RECURSIVE SumXp(_)
SumXp(s) ==
  IF s = <<>> THEN 0 ELSE PayoutXp(Head(s)) + SumXp(Tail(s))

\* C15: what checkAndAwardBadges returns: badgesAwarded holds exactly the
\* badges this call added to the user's badges, each once and none held
\* before the call, and totalCoins and totalExperience are the sums of the
\* payouts of the badges in it.
C15_BulkReturnsFreshGrants ==
  \A p \in Procs :
    batch[p].state = "done" =>
      LET b == batch[p]
          awarded == {b.badgesAwarded[i] : i \in 1..Len(b.badgesAwarded)}
          before == {b.before[i] : i \in 1..Len(b.before)}
          held == {progress.badges[i] : i \in 1..Len(progress.badges)}
      IN /\ awarded = held \ before
         /\ Cardinality(awarded) = Len(b.badgesAwarded)
         /\ b.totalCoins = SumCoins(b.badgesAwarded)
         /\ b.totalExperience = SumXp(b.badgesAwarded)

\* C16: addExperience, addCoins and spendCoins of an amount <= 0 end with
\* the error of the amount test, and the stored progress and wallet stay as
\* they were.
C16_InvalidAmountRejected ==
  [][\A p \in Procs :
       /\ (pc[p] = "addExp" /\ pc'[p] # "addExp" /\ call[p].xp <= 0) =>
            /\ pc'[p] = "idle"
            /\ result'[p] = "Experience amount must be positive"
            /\ progress' = progress /\ wallet' = wallet
       /\ (pc[p] \in {"addCoins", "spendCoins"} /\ pc'[p] # pc[p]
           /\ call[p].coins <= 0) =>
            /\ pc'[p] = "idle"
            /\ result'[p] = "Amount must be positive"
            /\ progress' = progress /\ wallet' = wallet]_vars

\* C16 witness: an addExperience call of a non-positive amount has failed on
\* a user who holds experience from an earlier call.
C16_Witness ==
  /\ progress.experience > 0
  /\ progress.level > 1
  /\ \E p \in Procs :
       pc[p] = "idle" /\ result[p] = "Experience amount must be positive"

\* The error a grant call for a reward of no document, or of an inactive
\* one, ends with.
RefusedWith(r) ==
  IF r \in BadgeIds
  THEN IF r \in DOMAIN BadgeCatalog
       THEN "Badge is not active" ELSE "Badge not found"
  ELSE IF r \in DOMAIN AchievementCatalog
       THEN "This achievement is not available" ELSE "Achievement not found"

\* C17: a grant call for a reward id of no document ends with the not-found
\* error, and for an inactive reward with the not-active error; the call
\* writes nothing, and such a reward is never unlocked or paid for.
C17_UnknownOrInactiveRefused ==
  [][\A r \in targets \cap RewardIds :
       ~Grantable(r) =>
         /\ (Len(outcomes'[r]) = Len(outcomes[r]) + 1) =>
              /\ outcomes'[r][Len(outcomes'[r])] = RefusedWith(r)
              /\ progress' = progress /\ wallet' = wallet
         /\ ~Unlocked(progress', r)
         /\ stats'[r].fresh = 0 /\ stats'[r].coins = 0 /\ stats'[r].xp = 0
    ]_vars

\* C17 witness: after an achievement was granted, the grant of an inactive
\* badge was refused and the user's records are those of the achievement.
C17_Witness ==
  /\ targets = {"bOff", "aGold"}
  /\ outcomes["aGold"] = <<"ok">>
  /\ outcomes["bOff"] = <<"Badge is not active">>
  /\ progress.badges = <<>>
  /\ progress.experience = 50
  /\ wallet.coins = 10

\* C18: the step of blacklistToken that ends a revocation stores no record
\* and answers 'Invalid token' when the token has no payload or no exp claim,
\* and a record it stores carries the token's own exp claim as expiresAt.
C18_ExpiryFromTokenClaim ==
  [][\A p \in Procs :
       (tpc[p] = "blacklist" /\ tpc'[p] = "idle") =>
         LET token == treq[p].token
             claims == TokenCatalog[token]
         IN /\ (~claims.decodable \/ claims.exp = 0) =>
                 /\ response'.status = 500
                 /\ response'.message = "Invalid token"
                 /\ blacklist' = blacklist
            /\ (blacklist' # blacklist) =>
                 /\ claims.decodable /\ claims.exp # 0
                 /\ Len(blacklist') = Len(blacklist) + 1
                 /\ SubSeq(blacklist', 1, Len(blacklist)) = blacklist
                 /\ blacklist'[Len(blacklist')] =
                      [token |-> token, userId |-> treq[p].user,
                       expiresAt |-> claims.exp * 1000]
    ]_vars

\* C18 witness: one second after the start, the token of exp claim 2 was
\* revoked and its record expires at 2000 ms.
C18_Witness ==
  /\ now = 1
  /\ response.op = "logout" /\ response.token = "tB"
  /\ response.status = 200
  /\ \E i \in 1..Len(blacklist) :
       blacklist[i].token = "tB" /\ blacklist[i].expiresAt = 2000

\* The steps of a grant call that credit the wallet or the experience.
PayoutSteps == {"addCoins", "addCoinsSave", "addExp", "addExpSave"}

\* C19: in a grant call the payout steps begin only once the unlock is in
\* the stored progress, and a step of the call that finds the reward
\* unlocked already ends the call, with the wallet and the experience
\* as they were.
C19_UnlockBeforePayout ==
  [][\A p \in Procs :
       LET c == call[p]
       IN /\ (c.op \in GrantOps /\ pc[p] \notin PayoutSteps
              /\ pc'[p] \in PayoutSteps) =>
                Unlocked(progress', c.id)
          /\ (c.op \in GrantOps /\ pc[p] \in {"addBadge", "unlock"}
              /\ pc'[p] # pc[p] /\ Unlocked(progress, c.id)) =>
                /\ pc'[p] = "idle"
                /\ wallet' = wallet
                /\ progress' = progress
    ]_vars

\* C20: a request to authenticateJWT goes from the header test to the
\* blacklist test and from there to jwt.verify, never another way; it is
\* passed on (next() with req.user the token's claims) only by the verify
\* step, for a bearer token that had no record at the blacklist test and that
\* is well formed, signed and unexpired; every other end of it is a 401 that
\* sets no user.
C20_AuthenticateOrder ==
  [][/\ (started' # started /\ tpc' = tpc) =>
         /\ response'.op = "auth"
         /\ response'.token \notin TokenIds
         /\ response'.status = 401 /\ response'.user = ""
     /\ \A p \in Procs :
       LET token == treq[p].token
           claims == TokenCatalog[token]
       IN /\ (tpc'[p] = "authCheck" /\ tpc[p] # "authCheck") =>
               /\ tpc[p] = "idle"
               /\ treq'[p].op = "auth" /\ treq'[p].token \in TokenIds
               /\ response' = response
          /\ (tpc'[p] = "verify" /\ tpc[p] # "verify") =>
               /\ tpc[p] = "authCheck"
               /\ ~Stored(blacklist, token)
               /\ treq'[p] = treq[p]
               /\ response' = response
          /\ (tpc[p] = "authCheck" /\ tpc'[p] # "authCheck") =>
               \/ tpc'[p] = "verify"
               \/ /\ tpc'[p] = "idle"
                  /\ Stored(blacklist, token)
                  /\ response'.op = "auth" /\ response'.token = token
                  /\ response'.status = 401 /\ response'.user = ""
          /\ (tpc[p] = "verify" /\ tpc'[p] # "verify") =>
               /\ tpc'[p] = "idle"
               /\ response'.op = "auth" /\ response'.token = token
               /\ IF /\ claims.decodable /\ claims.signed
                     /\ (claims.exp # 0 => now < claims.exp)
                  THEN response'.status = 200 /\ response'.user = claims.sub
                  ELSE response'.status = 401 /\ response'.user = ""
    ]_vars

\* C20 witness: with the token of the other user revoked, a request carrying
\* the unexpired signed token of u2 was passed on with u2's claims.
C20_Witness ==
  /\ now = 1
  /\ Stored(blacklist, "tA")
  /\ response.op = "auth" /\ response.token = "tB"
  /\ response.status = 200 /\ response.user = "u2"

\* C21: cleanExpiredTokens run in the current state would leave exactly the
\* records whose expiresAt is not before now, each as it was and in the same
\* order, and isTokenBlacklisted would answer for every token what it
\* answers now.
C21_SweepChangesNoAnswer ==
  LET swept == SweepExpired(blacklist)
      kept == {i \in 1..Len(blacklist) : blacklist[i].expiresAt >= NowMs}
  IN /\ Len(swept) = Cardinality(kept)
     /\ \A i \in kept :
          swept[Cardinality({j \in kept : j <= i})] = blacklist[i]
     /\ \A t \in TokenIds :
          IsBlacklisted(swept, t) = IsBlacklisted(blacklist, t)

\* The orders n calls can be put in.
Orders(n) == {f \in [1..n -> 1..n] : \A i, j \in 1..n : f[i] = f[j] => i = j}

\* The logged calls that returned normally.
Succeeded == SelectSeq(ledgerLog, LAMBDA e : e.outcome = "ok")

\* The document after the addExperience calls of log, taken in order f.
RECURSIVE SerialXp(_, _, _, _)
SerialXp(doc, log, f, i) ==
  IF i > Len(log) THEN doc
  ELSE SerialXp(AddExperienceDoc(doc, log[f[i]].amount), log, f, i + 1)

\* No handler is inside a call.
AllIdle == \A p \in Procs : pc[p] = "idle"

\* C22: once the concurrent addExperience calls of a run have all ended, the
\* stored level and experience are those of the calls that returned normally
\* applied one after the other in some order.
C22_ExperienceSerializable ==
  (audit /\ "addExperience" \in workload /\ AllIdle) =>
    \E f \in Orders(Len(Succeeded)) :
      LET serial == SerialXp(NewProgress, Succeeded, f, 1)
      IN progress.level = serial.level
         /\ progress.experience = serial.experience

\* A wallet no serial order of calls leads to.
NoWallet == [coins |-> -1, totalEarned |-> -1, totalSpent |-> -1]

\* The wallet after the addCoins and spendCoins calls of log, taken in order
\* f, each spend finding the coins it takes; NoWallet when one does not.
RECURSIVE SerialWallet(_, _, _, _)
SerialWallet(doc, log, f, i) ==
  IF i > Len(log) \/ doc = NoWallet THEN doc
  ELSE LET e == log[f[i]]
       IN IF e.op = "addCoins"
          THEN SerialWallet(AddCoinsDoc(doc, e.amount), log, f, i + 1)
          ELSE IF CanAfford(doc, e.amount)
          THEN SerialWallet(SpendCoinsDoc(doc, e.amount), log, f, i + 1)
          ELSE NoWallet

\* The amounts of the calls of log whose operation is op, summed.
RECURSIVE SumAmounts(_, _)
SumAmounts(log, op) ==
  IF log = <<>> THEN 0
  ELSE (IF Head(log).op = op THEN Head(log).amount ELSE 0)
       + SumAmounts(Tail(log), op)

\* C23: once the concurrent addCoins and spendCoins calls of a run have all
\* ended, the wallet is that of the calls that returned normally applied one
\* after the other in some order in which every spend is covered, and the
\* coins taken from it are the sum of the amounts of those spends.
C23_WalletSerializable ==
  (audit /\ "spendCoins" \in workload /\ AllIdle) =>
    /\ \E f \in Orders(Len(Succeeded)) :
         wallet = SerialWallet(NewWallet(0), Succeeded, f, 1)
    /\ wallet.totalEarned - wallet.coins = SumAmounts(Succeeded, "spendCoins")

\* No id stands at two places of s.
NoRepeat(s) == \A i, j \in 1..Len(s) : s[i] = s[j] => i = j

\* C24: the stored achievements array and the stored badges array hold every
\* id at most once.
C24_UnlockedIdsUnique ==
  NoRepeat(progress.achievements) /\ NoRepeat(progress.badges)

\* C25: the save of an addExperience call of a positive amount goes through,
\* and the progress it stores has experienceToNextLevel = level * 100 and a
\* levelProgress from 0 to 100.
C25_ProgressFieldsInBounds ==
  [][\A p \in Procs :
       (pc[p] = "addExpSave" /\ pc'[p] # "addExpSave" /\ call[p].xp > 0) =>
         /\ result'[p] = "ok"
         /\ progress'.experienceToNextLevel = progress'.level * 100
         /\ progress'.levelProgress >= 0
         /\ progress'.levelProgress <= 100
    ]_vars

\* C26: what a checkAndAwardBadges call served alone returns as totalCoins
\* is what the wallet's totalEarned grew by during the call, and what it
\* returns as totalExperience is the experience granted to the user during
\* the call.
C26_BulkTotalsMatchLedgers ==
  \A p \in Procs :
    batch[p].state = "done" =>
      /\ batch[p].totalCoins = wallet.totalEarned - batch[p].earnedBefore
      /\ batch[p].totalExperience
           = XpCredited(DOMAIN stats) - batch[p].xpBefore

\* C27: the badges findAvailable returned at the time of a call are exactly
\* the badges of the collection whose isAvailable virtual is true at that
\* time.
C27_FindAvailableIsVirtual ==
  evaluation.done =>
    \A id \in DOMAIN badgeDefs :
      id \in evaluation.available
        <=> IsAvailable(badgeDefs[id], evaluation.at)

\* C28: the coinsEarned statistic a checkAndAwardBadges call evaluates the
\* coins_earned criteria with is the wallet's totalEarned as the call began.
C28_CoinsEarnedIsTotalEarned ==
  \A p \in Procs :
    batch[p].state # "none" =>
      batch[p].coinsEarned = batch[p].earnedBefore

\* The user holds every badge findUnlockableBadges returns for the user's
\* stats as they are now.
HoldsAllUnlockable ==
  \A id \in FindUnlockableBadges(badgeDefs, UserStats, now) :
    HasBadge(progress, id)

\* The checkAndAwardBadges call of handler p has returned and the user's
\* badges are those the call found.
AwardedNothing(p) ==
  batch[p].state = "done" /\ progress.badges = batch[p].before

C30_OneRecordPerToken ==
  [][/\ \A i, j \in 1..Len(blacklist') :
          blacklist'[i].token = blacklist'[j].token => i = j
     /\ \A p \in Procs :
          (tpc[p] \in {"logoutCheck", "blacklist"} /\ tpc'[p] = "idle") =>
            /\ Stored(blacklist, treq[p].token) =>
                 /\ response'.op = "logout"
                 /\ response'.token = treq[p].token
                 /\ response'.status = 500
                 /\ blacklist' = blacklist
            /\ response'.status = 200 =>
                 /\ ~Stored(blacklist, treq[p].token)
                 /\ Len(blacklist') = Len(blacklist) + 1
                 /\ SubSeq(blacklist', 1, Len(blacklist)) = blacklist
                 /\ blacklist'[Len(blacklist')].token = treq[p].token
    ]_vars

\* C30 witness: of two logout calls that both passed the isTokenBlacklisted
\* test, the second was refused by the unique index and the one record is
\* the first call's.
C30_Witness ==
  /\ response.op = "logout"
  /\ response.message = "E11000 duplicate key"
  /\ response.user = "u2"
  /\ Len(blacklist) = 1
  /\ blacklist[1].token = response.token
  /\ blacklist[1].userId = "u1"

====
